---- MODULE Spec2Model ----
(***************************************************************************)
(* Model of ghollector/blob.go: the Blob type, its constructors, Push      *)
(* (with pushSpecialAttribute), HasAttribute and Snapshot.                 *)
(*                                                                         *)
(* Go maps are reference values, so the model keeps a heap of map objects  *)
(* and a Blob's Data (a *simplejson.Json, i.e. a cell holding one          *)
(* interface{} value) holds either a scalar or a reference into the heap.  *)
(* Sharing between a Blob and its Snapshot is whatever the code produces.  *)
(***************************************************************************)
EXTENDS Integers, Sequences, FiniteSets, TLC

VARIABLES
  heap,      \* the map objects allocated so far
  blob,      \* the Blob constructed
  snapshot,  \* what the latest Snapshot() of blob returned (a nil Blob before)
  last,      \* the latest call and what it returned
  old,       \* heap, blob and snapshot as they were before the latest call
  budget     \* the number of calls the program still makes

vars == <<heap, blob, snapshot, last, old, budget>>

(* ---------------------------------------------------------------- bounds *)

\* Number of calls made on the Blobs after construction.
MaxSteps == 2

\* Number of calls made in the snapshot scenario.
MaxSnapshotSteps == 5

(* ------------------------------------------------------------ constants *)

MetadataType == "_type"
MetadataSnapshotId == "_snapshot_id"
MetadataSnapshotField == "_snapshot_field"

(* ---------------------------------------------------- interface{} values *)

\* Go values as they occur in a simplejson tree.  A "map" value is a
\* reference to a map[string]interface{} object of the heap.
Nil == [t |-> "nil"]
Str(s) == [t |-> "str", s |-> s]
Num(n) == [t |-> "num", n |-> n]
Ref(a) == [t |-> "map", a |-> a]

\* A map literal built by a caller, given by its content; it becomes a fresh
\* map object when it is handed to the program.
Obj(m) == [t |-> "obj", m |-> m]

EmptyMap == [k \in {} |-> Nil]

IsMap(v) == v.t = "map"

\* m[k] = v on a Go map.
MapSet(m, k, v) == [x \in (DOMAIN m) \cup {k} |-> IF x = k THEN v ELSE m[x]]

\* make(map[string]interface{}): the heap with one more object.
Alloc(h, m) == Append(h, m)

\* A tree built in memory (by the JSON decoder, or by a caller writing map
\* literals): scalars as they are, every object a fresh map of the heap.
\* Yields the heap afterwards and the value standing for the tree.
RECURSIVE Store(_, _)
RECURSIVE StoreFields(_, _, _, _)
Store(h, tree) ==
  IF tree.t = "obj"
    THEN StoreFields(Alloc(h, EmptyMap), Len(h) + 1, tree.m, DOMAIN tree.m)
    ELSE [heap |-> h, val |-> tree]
StoreFields(h, a, m, keys) ==
  IF keys = {} THEN [heap |-> h, val |-> Ref(a)]
  ELSE LET k == CHOOSE x \in keys : TRUE
           r == Store(h, m[k])
       IN StoreFields([r.heap EXCEPT ![a] = MapSet(r.heap[a], k, r.val)],
                      a, m, keys \ {k})

\* The tree a value stands for, maps expanded to their content.
RECURSIVE Deep(_, _)
Deep(h, v) ==
  IF IsMap(v)
    THEN Obj([k \in DOMAIN h[v.a] |-> Deep(h, h[v.a][k])])
    ELSE v

(* ------------------------------------------------------ package strings *)

HasPrefix(s, prefix) ==
  /\ Len(s) >= Len(prefix)
  /\ SubSeq(s, 1, Len(prefix)) = prefix

\* Index of the first occurrence of the one-character sep in s at or after i,
\* or 0 when there is none.
RECURSIVE IndexFrom(_, _, _)
IndexFrom(s, sep, i) ==
  IF i > Len(s) THEN 0
  ELSE IF SubSeq(s, i, i) = sep THEN i
  ELSE IndexFrom(s, sep, i + 1)

\* strings.Split(s, sep) for a one-character sep: always at least one
\* segment; Split("", ".") is <<"">>.
RECURSIVE Split(_, _)
Split(s, sep) ==
  LET i == IndexFrom(s, sep, 1)
  IN IF i = 0 THEN <<s>>
     ELSE <<SubSeq(s, 1, i - 1)>> \o Split(SubSeq(s, i + 1, Len(s)), sep)

(* ----------------------------------------------------------- simplejson *)

\* (*Json).CheckGet: the value under key when the data is a map having it.
CheckGetOk(h, data, key) == IsMap(data) /\ key \in DOMAIN h[data.a]

\* (*Json).Get: the value under key, or a Json holding nil.
Get(h, data, key) == IF CheckGetOk(h, data, key) THEN h[data.a][key] ELSE Nil

\* (*Json).GetPath: Get along the branch.
RECURSIVE GetPath(_, _, _)
GetPath(h, data, branch) ==
  IF branch = << >> THEN data
  ELSE GetPath(h, Get(h, data, Head(branch)), Tail(branch))

\* SetPathFrom with a fresh map put under every segment but the last, also
\* where a map is already there.
RECURSIVE SetPathFromClobber(_, _, _, _)
SetPathFromClobber(h, curr, branch, val) ==
  LET b == Head(branch)
  IN IF Len(branch) = 1
       THEN [h EXCEPT ![curr] = MapSet(h[curr], b, val)]
     ELSE LET h1 == Alloc(h, EmptyMap)
              n == Len(h1)
              h2 == [h1 EXCEPT ![curr] = MapSet(h1[curr], b, Ref(n))]
          IN SetPathFromClobber(h2, n, Tail(branch), val)

\* The loop of (*Json).SetPath from map object curr on: every segment but
\* the last selects the map below, which is created when the key is missing
\* and replaces whatever is there when that is no map; the last segment is
\* assigned val.
RECURSIVE SetPathFrom(_, _, _, _)
SetPathFrom(h, curr, branch, val) ==
  LET b == Head(branch)
  IN IF Len(branch) = 1
       THEN [h EXCEPT ![curr] = MapSet(h[curr], b, val)]
     ELSE IF b \in DOMAIN h[curr] /\ IsMap(h[curr][b])
       THEN SetPathFrom(h, h[curr][b].a, Tail(branch), val)
     ELSE LET h1 == Alloc(h, EmptyMap)
              n == Len(h1)
              h2 == [h1 EXCEPT ![curr] = MapSet(h1[curr], b, Ref(n))]
          IN SetPathFrom(h2, n, Tail(branch), val)

\* (*Json).SetPath: the heap and the Json's data afterwards.
SetPath(h, data, branch, val) ==
  IF branch = << >> THEN [heap |-> h, data |-> val]
  ELSE IF IsMap(data)
    THEN [heap |-> SetPathFrom(h, data.a, branch, val), data |-> data]
  ELSE LET h1 == Alloc(h, EmptyMap)
       IN [heap |-> SetPathFrom(h1, Len(h1), branch, val), data |-> Ref(Len(h1))]

(* ------------------------------------------------------------------ fmt *)

\* The key universe in byte order, the order in which fmt prints map keys.
KeyOrder == <<"", "_type", "a", "a.b", "b", "c">>

\* fmt.Sprintf("%v", v).
RECURSIVE Sprintv(_, _)
RECURSIVE SprintEntries(_, _, _, _)
Sprintv(h, v) ==
  CASE v.t = "nil" -> "<nil>"
    [] v.t = "str" -> v.s
    [] v.t = "num" -> ToString(v.n)
    [] v.t = "map" -> "map[" \o SprintEntries(h, h[v.a], 1, TRUE) \o "]"
SprintEntries(h, m, i, first) ==
  IF i > Len(KeyOrder) THEN ""
  ELSE IF KeyOrder[i] \notin DOMAIN m THEN SprintEntries(h, m, i + 1, first)
  ELSE (IF first THEN "" ELSE " ") \o KeyOrder[i] \o ":"
       \o Sprintv(h, m[KeyOrder[i]]) \o SprintEntries(h, m, i + 1, FALSE)

(* ----------------------------------------------------------------- Blob *)

\* A nil *Blob.
NilBlob == [isNil |-> TRUE]

\* NewBlobFromJson with the id also stored as the snapshot id.
NewBlobFromJsonIdMixup(event, id, json, now) ==
  [Data |-> json, Id |-> id, SnapshotId |-> id, SnapshotField |-> "",
   Timestamp |-> now, Type |-> event]

NewBlobFromJson(event, id, json, now) ==
  [Data |-> json, Id |-> id, SnapshotId |-> "", SnapshotField |-> "",
   Timestamp |-> now, Type |-> event]

\* error values: nil, and the two messages of pushSpecialAttribute.
NoError == "nil"
ErrInvalidField == "invalid metadata field"
ErrBadValue == "bad value (expected string)"

\* HasAttribute resolving attr as a dotted path.
RECURSIVE CheckGetPathOk(_, _, _)
CheckGetPathOk(h, data, branch) ==
  \/ branch = << >>
  \/ /\ CheckGetOk(h, data, Head(branch))
     /\ CheckGetPathOk(h, Get(h, data, Head(branch)), Tail(branch))
HasAttributePath(h, b, attr) == CheckGetPathOk(h, b.Data, Split(attr, "."))

HasAttribute(h, b, attr) == CheckGetOk(h, b.Data, attr)

\* metaFields with the two snapshot targets exchanged.
metaFieldsSwapped ==
  (MetadataType :> "Type") @@ (MetadataSnapshotId :> "SnapshotField")
    @@ (MetadataSnapshotField :> "SnapshotId")

metaFields ==
  (MetadataType :> "Type") @@ (MetadataSnapshotId :> "SnapshotId")
    @@ (MetadataSnapshotField :> "SnapshotField")

\* pushSpecialAttribute asserting the type of the value before looking up
\* the key.
pushSpecialAttributeTypeFirst(h, b, key, value) ==
  IF value.t # "str"
    THEN [heap |-> h, blob |-> b, err |-> ErrBadValue]
  ELSE IF key \notin DOMAIN metaFields
    THEN [heap |-> h, blob |-> b, err |-> ErrInvalidField]
  ELSE [heap |-> h, blob |-> [b EXCEPT ![metaFields[key]] = value.s],
        err |-> NoError]

\* pushSpecialAttribute storing the result of the type assertion (the empty
\* string when it fails) before testing it.
pushSpecialAttributeAssignFirst(h, b, key, value) ==
  IF key \notin DOMAIN metaFields
    THEN [heap |-> h, blob |-> b, err |-> ErrInvalidField]
  ELSE LET strValue == IF value.t = "str" THEN value.s ELSE ""
           b1 == [b EXCEPT ![metaFields[key]] = strValue]
       IN [heap |-> h, blob |-> b1,
           err |-> IF value.t = "str" THEN NoError ELSE ErrBadValue]

pushSpecialAttribute(h, b, key, value) ==
  IF key \notin DOMAIN metaFields
    THEN [heap |-> h, blob |-> b, err |-> ErrInvalidField]
  ELSE IF value.t # "str"
    THEN [heap |-> h, blob |-> b, err |-> ErrBadValue]
  ELSE [heap |-> h, blob |-> [b EXCEPT ![metaFields[key]] = value.s],
        err |-> NoError]

\* Push setting the key as one name of the document (Set for SetPath).
PushFlat(h, b, key, value) ==
  IF HasPrefix(key, "_") THEN pushSpecialAttribute(h, b, key, value)
  ELSE LET r == SetPath(h, b.Data, <<key>>, value)
       IN [heap |-> r.heap, blob |-> [b EXCEPT !.Data = r.data], err |-> NoError]

\* Blob.Push: the heap, the Blob and the error returned.
Push(h, b, key, value) ==
  IF HasPrefix(key, "_") THEN pushSpecialAttribute(h, b, key, value)
  ELSE LET path == Split(key, ".")
           r == SetPath(h, b.Data, path, value)
       IN [heap |-> r.heap, blob |-> [b EXCEPT !.Data = r.data], err |-> NoError]

\* Snapshot giving up only when both snapshot attributes are empty.
SnapshotBothEmpty(h, b) ==
  IF b.SnapshotId = "" /\ b.SnapshotField = "" THEN NilBlob
  ELSE LET snap == Get(h, b.Data, b.SnapshotField)
           snapshotId == Sprintv(h, GetPath(h, snap, Split(b.SnapshotId, ".")))
       IN [Data |-> snap, Id |-> snapshotId, SnapshotId |-> "",
           SnapshotField |-> "", Timestamp |-> b.Timestamp, Type |-> b.Type]

\* Snapshot looking the id up in the Blob's data, not in the snapshot's.
SnapshotIdFromSource(h, b) ==
  IF b.SnapshotId = "" \/ b.SnapshotField = "" THEN NilBlob
  ELSE LET snap == Get(h, b.Data, b.SnapshotField)
           snapshotId == Sprintv(h, GetPath(h, b.Data, Split(b.SnapshotId, ".")))
       IN [Data |-> snap, Id |-> snapshotId, SnapshotId |-> "",
           SnapshotField |-> "", Timestamp |-> b.Timestamp, Type |-> b.Type]

\* Blob.Snapshot: a nil Blob, or the Blob of the snapshot.
Snapshot(h, b) ==
  IF b.SnapshotId = "" \/ b.SnapshotField = "" THEN NilBlob
  ELSE LET snap == Get(h, b.Data, b.SnapshotField)
           snapshotId == Sprintv(h, GetPath(h, snap, Split(b.SnapshotId, ".")))
       IN [Data |-> snap, Id |-> snapshotId, SnapshotId |-> "",
           SnapshotField |-> "", Timestamp |-> b.Timestamp, Type |-> b.Type]

(* --------------------------------------------------------------- inputs *)

Events == {"push_event"}
Ids == {"1"}

\* time.Now() at construction.
Times == {1, 2}

\* Documents a Blob is constructed from: the empty one of NewBlob, and
\* decoded payloads (an object with a nested object, an object with a
\* dotted top-level name, a scalar under "a" and a field named "_type", and
\* a bare number).
Payloads ==
  { Obj(EmptyMap),
    Obj(("a" :> Obj("b" :> Num(42))) @@ ("c" :> Str("x"))),
    Obj(("a.b" :> Obj("b" :> Str("x"))) @@ ("a" :> Num(42))
          @@ ("_type" :> Str("x"))),
    Num(42) }

\* Keys handed to Push and HasAttribute.
OrdinaryKeys == {"a", "a.b", "a.b.c", ""}
ReservedKeys == {MetadataType, MetadataSnapshotId, MetadataSnapshotField,
                 "_unknown", "_"}
Keys == OrdinaryKeys \cup ReservedKeys

\* Values handed to Push.
Strings == {"", "a", "b", "a.b"}
Values == {Str(s) : s \in Strings} \cup {Nil, Num(7), Obj("b" :> Num(7))}

\* The calls of the snapshot scenario: the snapshot attributes are set (or
\* cleared), the type is set, and fields at and below the snapshotted object
\* are written.
SnapshotPushes ==
  ({MetadataSnapshotId} \X {Str(""), Str("b"), Str("a.b")})
    \cup ({MetadataSnapshotField} \X {Str(""), Str("a"), Str("a.b")})
    \cup ({MetadataType} \X {Str("a")})
    \cup ({"b", "a.b"} \X {Num(7)})
    \cup ({"a"} \X {Obj("b" :> Num(7))})

Blobs == {"blob", "snapshot"}

(* ------------------------------------------------------------- behaviour *)

\* What the last operation was, on which Blob, with which arguments, and
\* what it returned.
Call(op, who, key, value, err, ok) ==
  [op |-> op, who |-> who, key |-> key, value |-> value, err |-> err, ok |-> ok]

The(who) == IF who = "blob" THEN blob ELSE snapshot

\* NewBlob / NewBlobFromJson / NewBlobFromPayload with a payload that decodes,
\* in a program that goes on to make n calls.
Construct(n) ==
  \E event \in Events, id \in Ids, doc \in Payloads, now \in Times :
    LET json == Store(<< >>, doc)
    IN /\ heap = json.heap
       /\ blob = NewBlobFromJson(event, id, json.val, now)
       /\ snapshot = NilBlob
       /\ last = Call("New", "blob", "", Nil, NoError, FALSE)
       /\ old = [heap |-> heap, blob |-> blob, snapshot |-> snapshot]
       /\ budget = n

Remember ==
  /\ budget > 0
  /\ budget' = budget - 1
  /\ old' = [heap |-> heap, blob |-> blob, snapshot |-> snapshot]

CallPush(who, key, value) ==
  /\ Remember
  /\ The(who) # NilBlob
  /\ LET arg == Store(heap, value)
         r == Push(arg.heap, The(who), key, arg.val)
     IN /\ heap' = r.heap
        /\ blob' = IF who = "blob" THEN r.blob ELSE blob
        /\ snapshot' = IF who = "snapshot" THEN r.blob ELSE snapshot
        /\ last' = Call("Push", who, key, value, r.err, FALSE)

CallSnapshot ==
  /\ Remember
  /\ snapshot' = Snapshot(heap, blob)
  /\ last' = Call("Snapshot", "blob", "", Nil, NoError, snapshot' # NilBlob)
  /\ UNCHANGED <<heap, blob>>

CallHasAttribute(who, key) ==
  /\ Remember
  /\ The(who) # NilBlob
  /\ last' = Call("HasAttribute", who, key, Nil, NoError,
                  HasAttribute(heap, The(who), key))
  /\ UNCHANGED <<heap, blob, snapshot>>

\* Any calls with any of the keys and values.
Init == Construct(MaxSteps)

Next ==
  \/ \E who \in Blobs, key \in Keys, value \in Values : CallPush(who, key, value)
  \/ CallSnapshot
  \/ \E who \in Blobs, key \in Keys : CallHasAttribute(who, key)

Spec == Init /\ [][Next]_vars

\* The snapshot scenario: longer runs of the calls around Snapshot.
InitSnapshot == Construct(MaxSnapshotSteps)

NextSnapshot ==
  \/ \E who \in Blobs, c \in SnapshotPushes : CallPush(who, c[1], c[2])
  \/ CallSnapshot
  \/ \E who \in Blobs : CallHasAttribute(who, "a")

SpecSnapshot == InitSnapshot /\ [][NextSnapshot]_vars

(* ------------------------------------------------------------ documents *)

\* The vocabulary of the properties: documents as trees, and paths in them.

\* The document of a Blob as a tree.
Document(h, b) == Deep(h, b.Data)

\* The Blob the latest call was made on, before and after the call.
Before == IF last.who = "blob" THEN old.blob ELSE old.snapshot
After == The(last.who)
DocBefore == Document(old.heap, Before)
DocAfter == Document(heap, After)

\* The segments of each key of the model, written out.
PathOf ==
  ("a" :> <<"a">>) @@ ("b" :> <<"b">>) @@ ("a.b" :> <<"a", "b">>)
    @@ ("a.b.c" :> <<"a", "b", "c">>) @@ ("" :> <<"">>)

TopHas(tree, k) == tree.t = "obj" /\ k \in DOMAIN tree.m

\* Whether the path leads to a node of the tree, and the node it leads to
\* (Nil when it leads nowhere).
RECURSIVE Present(_, _)
Present(tree, path) ==
  \/ path = << >>
  \/ /\ TopHas(tree, Head(path))
     /\ Present(tree.m[Head(path)], Tail(path))

RECURSIVE Lookup(_, _)
Lookup(tree, path) ==
  IF path = << >> THEN tree
  ELSE IF TopHas(tree, Head(path)) THEN Lookup(tree.m[Head(path)], Tail(path))
  ELSE Nil

\* All paths leading to a node of the tree.
RECURSIVE PathsOf(_)
PathsOf(tree) ==
  IF tree.t # "obj" THEN {}
  ELSE UNION {{<<k>>} \cup {<<k>> \o q : q \in PathsOf(tree.m[k])} :
              k \in DOMAIN tree.m}

IsPrefix(p, q) == Len(p) <= Len(q) /\ SubSeq(q, 1, Len(p)) = p
Related(p, q) == IsPrefix(p, q) \/ IsPrefix(q, p)

\* The object holding only value at the end of path.
RECURSIVE Chain(_, _)
Chain(path, value) ==
  IF path = << >> THEN value ELSE Obj(Head(path) :> Chain(Tail(path), value))

\* The text of a tree: a string is its own text, a number its decimal
\* digits, no value "<nil>", an object map[k:text ...] with its keys in order.
RECURSIVE TextOf(_)
RECURSIVE TextOfEntries(_, _)
TextOf(tree) ==
  CASE tree.t = "nil" -> "<nil>"
    [] tree.t = "str" -> tree.s
    [] tree.t = "num" -> ToString(tree.n)
    [] tree.t = "obj" -> "map[" \o TextOfEntries(tree.m, KeyOrder) \o "]"
TextOfEntries(m, order) ==
  IF order = << >> THEN ""
  ELSE IF Head(order) \notin DOMAIN m THEN TextOfEntries(m, Tail(order))
  ELSE LET rest == TextOfEntries(m, Tail(order))
       IN Head(order) \o ":" \o TextOf(m[Head(order)])
            \o (IF rest = "" THEN "" ELSE " " \o rest)

MetaFields == {"Type", "SnapshotId", "SnapshotField"}
Fields == MetaFields \cup {"Id", "Timestamp"}

TypeOK ==
  /\ budget \in 0..MaxSnapshotSteps
  /\ blob # NilBlob
  /\ last.op \in {"New", "Push", "Snapshot", "HasAttribute"}

(* --------------------------------------------------------------- claims *)

PushedReserved ==
  last.op = "Push" /\ last.key \in {"_type", "_snapshot_id", "_snapshot_field"}

FieldOf(key) ==
  CASE key = "_type" -> "Type"
    [] key = "_snapshot_id" -> "SnapshotId"
    [] key = "_snapshot_field" -> "SnapshotField"

Untouched == After = Before /\ DocAfter = DocBefore

\* C1: pushing "_type", "_snapshot_id" or "_snapshot_field" with a string
\* (the empty one included) succeeds, sets kind, snapshotIdPath or
\* snapshotFieldPath respectively to that string, and leaves the document,
\* the id, the timestamp and the two other metadata fields as they were.
C1_ReservedStringPush ==
  (PushedReserved /\ last.value.t = "str") =>
    /\ last.err = NoError
    /\ After[FieldOf(last.key)] = last.value.s
    /\ DocAfter = DocBefore
    /\ \A f \in Fields \ {FieldOf(last.key)} : After[f] = Before[f]

C1_Witness ==
  /\ PushedReserved /\ last.who = "blob"
  /\ last.key = "_snapshot_field" /\ last.value = Str("")
  /\ old.blob.SnapshotField = "a" /\ blob.SnapshotField = ""
  /\ old.blob.SnapshotId = "" /\ DocBefore.t = "obj"

\* C2: pushing a key without the "_" prefix succeeds, and afterwards the
\* key's dotted path leads, in the document, to exactly the value pushed.
C2_OrdinaryPushSetsPath ==
  (last.op = "Push" /\ last.key \in DOMAIN PathOf) =>
    /\ last.err = NoError
    /\ Present(DocAfter, PathOf[last.key])
    /\ Lookup(DocAfter, PathOf[last.key]) = last.value

C2_Witness ==
  /\ last.op = "Push" /\ last.key = "a.b.c" /\ last.value = Obj("b" :> Num(7))
  /\ Lookup(DocBefore, <<"a", "b">>) = Num(42)
  /\ Lookup(DocAfter, <<"a", "b", "c", "b">>) = Num(7)

\* C3: pushing a key that starts with "_" and is none of the three reserved
\* keys fails with the unknown-key error, whatever the value, and leaves
\* every field of the Blob and its document as they were.
C3_UnknownReservedKey ==
  (last.op = "Push" /\ last.key \in ReservedKeys /\ ~PushedReserved) =>
    /\ last.err = ErrInvalidField
    /\ Untouched

C3_Witness ==
  /\ last.op = "Push" /\ last.key = "_unknown" /\ last.value = Num(7)
  /\ last.err = ErrInvalidField /\ DocBefore.t = "obj"

\* C4: pushing one of the three reserved keys with a value that is no
\* string fails with the value-type error and leaves every field of the
\* Blob and its document as they were.
C4_ReservedNonString ==
  (PushedReserved /\ last.value.t # "str") =>
    /\ last.err = ErrBadValue
    /\ Untouched

C4_Witness ==
  /\ PushedReserved /\ last.key = "_snapshot_id" /\ last.value = Nil
  /\ last.err = ErrBadValue /\ After.SnapshotId = "b"

\* C5: Snapshot returns no Blob exactly when snapshotIdPath or
\* snapshotFieldPath is empty; with both set it returns a Blob, also when the
\* document has no such field or the id path leads nowhere.
C5_SnapshotNilIffEmpty ==
  last.op = "Snapshot" =>
    ((snapshot = NilBlob) <=>
       (old.blob.SnapshotId = "" \/ old.blob.SnapshotField = ""))

C5_Witness ==
  /\ last.op = "Snapshot" /\ snapshot # NilBlob
  /\ ~TopHas(Document(old.heap, old.blob), old.blob.SnapshotField)
  /\ snapshot.Data = Nil /\ snapshot.Id = "<nil>"

\* C6: with both snapshot attributes set, the Blob Snapshot returns has as
\* document what the source document holds under the one top-level name
\* snapshotFieldPath (not split on "."), as id the text of the value the
\* dotted path snapshotIdPath leads to inside that document, and the kind
\* and the timestamp of the source.
C6_SnapshotContents ==
  (last.op = "Snapshot" /\ old.blob.SnapshotId # ""
     /\ old.blob.SnapshotField # "") =>
    LET src == Document(old.heap, old.blob)
        sub == IF TopHas(src, old.blob.SnapshotField)
                 THEN src.m[old.blob.SnapshotField] ELSE Nil
    IN /\ snapshot # NilBlob
       /\ Document(heap, snapshot) = sub
       /\ snapshot.Id = TextOf(Lookup(sub, PathOf[old.blob.SnapshotId]))
       /\ snapshot.Type = old.blob.Type
       /\ snapshot.Timestamp = old.blob.Timestamp

C6_Witness ==
  /\ last.op = "Snapshot"
  /\ Document(heap, blob) =
       Obj(("a" :> Obj("b" :> Num(42))) @@ ("c" :> Str("x")))
  /\ blob.SnapshotField = "a" /\ blob.SnapshotId = "b"
  /\ Document(heap, snapshot) = Obj("b" :> Num(42))
  /\ snapshot.Id = "42" /\ snapshot.Type = "push_event"
  /\ snapshot.Timestamp = blob.Timestamp

\* C7: a Blob and the Blob Snapshot derived from it are independent: a push
\* of an ordinary key on either leaves the document of the other as it was.
C7_SnapshotIndependent ==
  (last.op = "Push" /\ last.key \in DOMAIN PathOf /\ old.snapshot # NilBlob) =>
    /\ last.who = "snapshot" =>
         Document(heap, blob) = Document(old.heap, old.blob)
    /\ last.who = "blob" =>
         Document(heap, snapshot) = Document(old.heap, old.snapshot)

C9_HasAttributeTopLevel ==
  /\ last.op = "HasAttribute" =>
       /\ last.ok <=> TopHas(DocAfter, last.key)
       /\ Untouched
  /\ (last.op = "Push" /\ last.key = "a.b" /\ ~TopHas(DocBefore, "a.b")) =>
       /\ last.err = NoError
       /\ HasAttribute(heap, After, "a")
       /\ ~HasAttribute(heap, After, "a.b")
  /\ (last.op = "Push" /\ last.key \in ReservedKeys) =>
       (HasAttribute(heap, After, last.key)
          <=> HasAttribute(old.heap, Before, last.key))

C9_Witness ==
  /\ last.op = "HasAttribute" /\ last.key = "a.b" /\ ~last.ok
  /\ old.blob = blob /\ last.who = "blob"
  /\ Present(DocAfter, <<"a", "b">>)
  /\ HasAttribute(heap, blob, "a")

\* C10: a push of an ordinary key on a Blob whose document is an object
\* changes no metadata field and no path of the document that is neither a
\* prefix nor an extension of the key's path; a node on the way that is no
\* object is replaced by an object holding only the rest of the path.
C10_OrdinaryPushFrame ==
  (last.op = "Push" /\ last.key \in DOMAIN PathOf /\ DocBefore.t = "obj") =>
    LET k == PathOf[last.key]
    IN /\ last.err = NoError
       /\ \A f \in Fields : After[f] = Before[f]
       /\ \A q \in PathsOf(DocBefore) \cup PathsOf(DocAfter) :
            ~Related(q, k) =>
              /\ Present(DocBefore, q) <=> Present(DocAfter, q)
              /\ Lookup(DocBefore, q) = Lookup(DocAfter, q)
       /\ \A i \in 1..(Len(k) - 1) :
            LET p == SubSeq(k, 1, i)
            IN (Present(DocBefore, p) /\ Lookup(DocBefore, p).t # "obj") =>
                 Lookup(DocAfter, p) = Chain(SubSeq(k, i + 1, Len(k)), last.value)

C10_Witness ==
  /\ last.op = "Push" /\ last.key = "a.b" /\ last.value = Str("b")
  /\ Lookup(DocBefore, <<"a">>) = Num(42)
  /\ Lookup(DocAfter, <<"a">>) = Obj("b" :> Str("b"))
  /\ TopHas(DocBefore, "a.b")
  /\ Lookup(DocAfter, <<"a.b">>) = Lookup(DocBefore, <<"a.b">>)

====
